---- MODULE Spec2Model ----
(***************************************************************************)
(* Model of src/user.py: a Flask application that keeps a Spotify OAuth    *)
(* credential in the browser session and relays a few read-only resources. *)
(*                                                                         *)
(* The state is the session dictionary, the wall clock, and the record of  *)
(* the last request (route, session before it, response, upstream calls).  *)
(* A request whose response is a redirect to an application route is       *)
(* followed by the browser: `pending` names the route that must be         *)
(* requested next, and the chain_* variables describe the whole chain.     *)
(***************************************************************************)
EXTENDS Integers, Sequences, FiniteSets, TLC

VARIABLES session, now, debug, pending,
          route, pre, at, outcome, calls, tok_resp, search_resp, res_resp,
          chain_route, chain_pre, chain_at, chain_calls,
          req, artist_id, chain_routes

vars == <<session, now, debug, pending, route, pre, at, outcome, calls,
          tok_resp, search_resp, res_resp, chain_route, chain_pre, chain_at, chain_calls,
          req, artist_id, chain_routes>>

\* ---------------------------------------------------------------- bounds
MaxTime == 2
MaxExpiresIn == 2
MaxItems == 2

\* ------------------------------------------------- values of the upstream
AccessTokens == {"AT1", "AT2"}
RefreshTokens == {"RT1"}
ArtistIds == {"id1", "id2"}
TokenFields == {"access_token", "refresh_token", "expires_in"}

\* the session dictionary: a function from the keys present to their values
EmptySession == [k \in {} |-> 0]
Has(sess, k) == k \in DOMAIN sess
Put(sess, k, v) == [x \in DOMAIN sess \cup {k} |-> IF x = k THEN v ELSE sess[x]]

\* a token-endpoint response: a status and a JSON body holding some fields.
\* A non-success response carries an error body, none of the token fields.
TokenBody(D, a, r, n) ==
    [k \in D |-> IF k = "access_token" THEN a
                 ELSE IF k = "refresh_token" THEN r ELSE n]
TokenResponses ==
    { [status |-> 200, body |-> TokenBody(D, a, r, n)] :
        D \in SUBSET TokenFields, a \in AccessTokens,
        r \in RefreshTokens, n \in 1..MaxExpiresIn }
    \cup { [status |-> 400, body |-> EmptySession] }
NoTokenResponse == [status |-> 0, body |-> EmptySession]

\* a resource response: a status and whether the body has the list key
ResourceResponses ==
    { [status |-> 200, has_items |-> TRUE],
      [status |-> 200, has_items |-> FALSE],
      [status |-> 401, has_items |-> FALSE] }
NoResourceResponse == [status |-> 0, has_items |-> FALSE]

\* an artist-search response
ItemLists == UNION { [1..n -> ArtistIds] : n \in 0..MaxItems }
SearchResponses ==
    { [status |-> 200, ok |-> TRUE, items |-> s] : s \in ItemLists }
    \cup { [status |-> 200, ok |-> FALSE, items |-> <<>>],
           [status |-> 401, ok |-> FALSE, items |-> <<>>] }
NoSearchResponse == [status |-> 0, ok |-> FALSE, items |-> <<>>]

Get(target) == [method |-> "GET", target |-> target, grant |-> "none"]
Post(grant) == [method |-> "POST", target |-> "token", grant |-> grant]

\* whether the calls c include one to the given upstream target
Made(c, target) == \E i \in 1..Len(c) : c[i].target = target

Result(o, c, s) == [outcome |-> o, calls |-> c, session |-> s]

\* -------------------------------------------------------------- handlers
index(sess) == Result("render_login", <<>>, sess)

login(sess) == Result("redirect_auth", <<>>, sess)

home(sess) == Result("render_home", <<>>, sess)

\* the code exchange of callback, with the lifetime the response reports
Exchange(sess, t, resp, lifetime) ==
    LET c == <<Post("authorization_code")>>
        s1 == Put(sess, "access_token", resp.body["access_token"])
        s2 == Put(s1, "refresh_token", resp.body["refresh_token"])
        s3 == Put(s2, "expires_at", t + lifetime)
    IN  IF ~Has(resp.body, "access_token") THEN Result("crash", c, sess)
        ELSE IF ~Has(resp.body, "refresh_token") THEN Result("crash", c, s1)
        ELSE IF ~Has(resp.body, "expires_in") THEN Result("crash", c, s2)
        ELSE Result("redirect_home", c, s3)

\* callback testing the code parameter before the error parameter
callback_code_first(sess, t, args, resp) ==
    IF args.code THEN Exchange(sess, t, resp, resp.body["expires_in"])
    ELSE IF args.error THEN Result("json_error", <<>>, sess)
    ELSE Result("no_return", <<>>, sess)

\* callback assuming a fixed token lifetime instead of the reported one
callback_fixed_lifetime(sess, t, args, resp) ==
    IF args.error THEN Result("json_error", <<>>, sess)
    ELSE IF args.code THEN Exchange(sess, t, resp, 1)
    ELSE Result("no_return", <<>>, sess)

callback(sess, t, args, resp) ==
    IF args.error THEN Result("json_error", <<>>, sess)
    ELSE IF args.code THEN
        LET c == <<Post("authorization_code")>>
            s1 == Put(sess, "access_token", resp.body["access_token"])
            s2 == Put(s1, "refresh_token", resp.body["refresh_token"])
            s3 == Put(s2, "expires_at", t + resp.body["expires_in"])
        IN  IF ~Has(resp.body, "access_token") THEN Result("crash", c, sess)
            ELSE IF ~Has(resp.body, "refresh_token") THEN Result("crash", c, s1)
            ELSE IF ~Has(resp.body, "expires_in") THEN Result("crash", c, s2)
            ELSE Result("redirect_home", c, s3)
    ELSE Result("no_return", <<>>, sess)

\* the expiry test every gated route and /refresh-token make
TokenExpired(sess, t) == t > sess["expires_at"]

\* Gate without the presence test of the access token
Gate_unguarded(sess, t) ==
    IF ~Has(sess, "expires_at") THEN "crash"
    ELSE IF TokenExpired(sess, t) THEN "redirect_refresh"
    ELSE "pass"

\* the two guards at the top of every gated route
Gate(sess, t) ==
    IF ~Has(sess, "access_token") THEN "redirect_login"
    ELSE IF ~Has(sess, "expires_at") THEN "crash"
    ELSE IF TokenExpired(sess, t) THEN "redirect_refresh"
    ELSE "pass"

\* a gated route that tests the status of the upstream response
StatusChecked(sess, t, target, resp) ==
    IF Gate(sess, t) # "pass" THEN Result(Gate(sess, t), <<>>, sess)
    ELSE IF resp.status = 200
         THEN IF resp.has_items THEN Result("render_list", <<Get(target)>>, sess)
              ELSE Result("crash", <<Get(target)>>, sess)
         ELSE Result("redirect_login", <<Get(target)>>, sess)

\* get_top_artists asking the token endpoint for a new token on every request
get_top_artists_eager(sess, t, resp) ==
    LET res == StatusChecked(sess, t, "top_artists", resp)
    IN  IF res.calls = <<>> THEN res
        ELSE Result(res.outcome, <<Post("refresh_token")>> \o res.calls, sess)

get_top_artists(sess, t, resp) == StatusChecked(sess, t, "top_artists", resp)

get_top_tracks(sess, t, resp) == StatusChecked(sess, t, "top_tracks", resp)

get_playlists(sess, t, resp) ==
    IF Gate(sess, t) # "pass" THEN Result(Gate(sess, t), <<>>, sess)
    ELSE IF resp.has_items THEN Result("render_list", <<Get("playlists")>>, sess)
         ELSE Result("crash", <<Get("playlists")>>, sess)

get_song_suggestions(sess, t, resp) ==
    StatusChecked(sess, t, "recommendations", resp)

\* refresh_token without its guards, storing whatever upstream returns
refresh_token_unguarded(sess, t, resp) ==
    LET c == <<Post("refresh_token")>>
        s1 == Put(sess, "access_token", resp.body["access_token"])
        s2 == Put(s1, "expires_at", t + resp.body["expires_in"])
    IN  IF ~Has(resp.body, "access_token") THEN Result("crash", c, sess)
        ELSE IF ~Has(resp.body, "expires_in") THEN Result("crash", c, s1)
        ELSE Result("redirect_home", c, s2)

\* refresh_token sending the browser back to /refresh-token to try again
refresh_token_retry(sess, t, resp) ==
    IF ~Has(sess, "refresh-token") THEN Result("redirect_refresh", <<>>, sess)
    ELSE IF ~Has(sess, "expires_at") THEN Result("crash", <<>>, sess)
    ELSE IF TokenExpired(sess, t) THEN Result("crash", <<>>, sess)
    ELSE Result("no_return", <<>>, sess)

\* refresh_token guarding on the stored key and posting the refresh
refresh_token_fixed(sess, t, resp) ==
    LET c == <<Post("refresh_token")>>
        s1 == Put(sess, "access_token", resp.body["access_token"])
        s2 == Put(s1, "expires_at", t + resp.body["expires_in"])
    IN  IF ~Has(sess, "refresh_token") THEN Result("render_home", <<>>, sess)
        ELSE IF ~Has(sess, "expires_at") THEN Result("crash", <<>>, sess)
        ELSE IF TokenExpired(sess, t)
             THEN IF ~Has(resp.body, "access_token") THEN Result("crash", c, sess)
                  ELSE IF ~Has(resp.body, "expires_in") THEN Result("crash", c, s1)
                  ELSE Result("redirect_home", c, s2)
        ELSE Result("no_return", <<>>, sess)

refresh_token(sess, t, resp) ==
    IF ~Has(sess, "refresh-token") THEN Result("render_home", <<>>, sess)
    ELSE IF ~Has(sess, "expires_at") THEN Result("crash", <<>>, sess)
    ELSE IF TokenExpired(sess, t) THEN Result("crash", <<>>, sess)
    ELSE Result("no_return", <<>>, sess)

\* get_artist_id taking the last item of the result list
get_artist_id_last(sess, resp) ==
    IF ~Has(sess, "access_token")
    THEN [raised |-> TRUE, id |-> "none", calls |-> <<>>]
    ELSE IF resp.status = 200
         THEN IF ~resp.ok
              THEN [raised |-> TRUE, id |-> "none", calls |-> <<Get("search")>>]
              ELSE IF resp.items # <<>>
                   THEN [raised |-> FALSE, id |-> resp.items[Len(resp.items)],
                         calls |-> <<Get("search")>>]
                   ELSE [raised |-> FALSE, id |-> "none",
                         calls |-> <<Get("search")>>]
         ELSE [raised |-> FALSE, id |-> "none", calls |-> <<Get("search")>>]

\* the result of get_artist_id: an exception, or None ("none"), or an id
get_artist_id(sess, resp) ==
    IF ~Has(sess, "access_token")
    THEN [raised |-> TRUE, id |-> "none", calls |-> <<>>]
    ELSE IF resp.status = 200
         THEN IF ~resp.ok
              THEN [raised |-> TRUE, id |-> "none", calls |-> <<Get("search")>>]
              ELSE IF resp.items # <<>>
                   THEN [raised |-> FALSE, id |-> resp.items[1],
                         calls |-> <<Get("search")>>]
                   ELSE [raised |-> FALSE, id |-> "none",
                         calls |-> <<Get("search")>>]
         ELSE [raised |-> FALSE, id |-> "none", calls |-> <<Get("search")>>]

get_custom_recommendations(sess, method, form, sresp, rresp) ==
    LET a == get_artist_id(sess, sresp)
        c == a.calls \o <<Get("recommendations")>>
    IN  IF ~Has(sess, "access_token") THEN Result("crash", <<>>, sess)
        ELSE IF method = "GET" THEN Result("render_form", <<>>, sess)
        ELSE IF ~(form.artist /\ form.genre) THEN Result("bad_request", <<>>, sess)
        ELSE IF a.raised THEN Result("crash", a.calls, sess)
        ELSE IF a.id = "none" THEN Result("render_form", a.calls, sess)
        ELSE IF rresp.status = 200
             THEN IF rresp.has_items THEN Result("render_list", c, sess)
                  ELSE Result("crash", c, sess)
             ELSE Result("json_400", c, sess)

get_recommendations(sess, form, sresp, rresp) ==
    LET a == get_artist_id(sess, sresp)
        c == a.calls \o <<Get("recommendations")>>
    IN  IF ~(form.artist /\ form.genre) THEN Result("json_500", <<>>, sess)
        ELSE IF a.raised THEN Result("json_500", a.calls, sess)
        ELSE IF a.id = "none" THEN Result("json_404", a.calls, sess)
        ELSE IF rresp.status = 200
             THEN IF rresp.has_items THEN Result("json_list", c, sess)
                  ELSE Result("json_500", c, sess)
             ELSE Result("json_400", c, sess)

\* ----------------------------------------------------------- the machine
\* where the browser goes after a response
RedirectTarget(o) ==
    CASE o = "redirect_login" -> "/login"
      [] o = "redirect_refresh" -> "/refresh-token"
      [] o = "redirect_home" -> "/home"
      [] OTHER -> "none"

\* an unhandled exception: in debug mode it propagates and the session is
\* not saved; otherwise the 500 response carries the session as written
Failed(o) == o \in {"crash", "no_return"}
Saved(sess, res) == IF Failed(res.outcome) /\ debug THEN sess ELSE res.session

Serve(r, res, tr, sr, rr) ==
    /\ pending \in {"none", r}
    /\ session' = Saved(session, res)
    /\ route' = r
    /\ pre' = session
    /\ at' = now
    /\ outcome' = res.outcome
    /\ calls' = res.calls
    /\ tok_resp' = tr
    /\ search_resp' = sr
    /\ res_resp' = rr
    /\ pending' = RedirectTarget(res.outcome)
    /\ IF pending = "none"
       THEN /\ chain_route' = r
            /\ chain_pre' = session
            /\ chain_at' = now
            /\ chain_calls' = res.calls
       ELSE /\ chain_calls' = chain_calls \o res.calls
            /\ UNCHANGED <<chain_route, chain_pre, chain_at>>
    /\ UNCHANGED <<now, debug>>

\* the query parameters of a /callback request; none on the other routes
Args == [error : BOOLEAN, code : BOOLEAN]
NoArgs == [error |-> FALSE, code |-> FALSE]

\* what is kept of a request besides Serve's record: its query parameters,
\* the value get_artist_id returned to it, and the routes of its chain
Note(r, args, id) ==
    /\ req' = args
    /\ artist_id' = id
    /\ chain_routes' = IF pending = "none" THEN <<r>>
                       ELSE Append(chain_routes, r)

Init ==
    /\ session = EmptySession
    /\ now = 0
    /\ debug \in BOOLEAN
    /\ pending = "none"
    /\ route = "none"
    /\ pre = EmptySession
    /\ at = 0
    /\ outcome = "none"
    /\ calls = <<>>
    /\ tok_resp = NoTokenResponse
    /\ search_resp = NoSearchResponse
    /\ res_resp = NoResourceResponse
    /\ chain_route = "none"
    /\ chain_pre = EmptySession
    /\ chain_at = 0
    /\ chain_calls = <<>>
    /\ req = NoArgs
    /\ artist_id = "none"
    /\ chain_routes = <<>>

Tick ==
    /\ now < MaxTime
    /\ now' = now + 1
    /\ UNCHANGED <<session, debug, pending, route, pre, at, outcome, calls,
                   tok_resp, search_resp, res_resp, chain_route, chain_pre, chain_at, chain_calls,
                   req, artist_id, chain_routes>>

\* the upstream answer a request consumed, when it made the call
Answer(res, target, resp, none) == IF Made(res.calls, target) THEN resp ELSE none

Plain(r, res) ==
    /\ Serve(r, res, NoTokenResponse, NoSearchResponse, NoResourceResponse)
    /\ Note(r, NoArgs, "none")

Resource(r, res, target, resp) ==
    /\ Serve(r, res, NoTokenResponse, NoSearchResponse,
             Answer(res, target, resp, NoResourceResponse))
    /\ Note(r, NoArgs, "none")

Index == Plain("/", index(session))

Login == Plain("/login", login(session))

Home == Plain("/home", home(session))

Callback ==
    \E args \in Args, resp \in TokenResponses :
        LET res == callback(session, now, args, resp)
        IN  /\ Serve("/callback", res,
                     Answer(res, "token", resp, NoTokenResponse),
                     NoSearchResponse, NoResourceResponse)
            /\ Note("/callback", args, "none")

Artists ==
    \E resp \in ResourceResponses :
        Resource("/artists", get_top_artists(session, now, resp),
                 "top_artists", resp)

Tracks ==
    \E resp \in ResourceResponses :
        Resource("/tracks", get_top_tracks(session, now, resp),
                 "top_tracks", resp)

Playlists ==
    \E resp \in ResourceResponses :
        Resource("/playlists", get_playlists(session, now, resp),
                 "playlists", resp)

Suggestions ==
    \E resp \in ResourceResponses :
        Resource("/suggestions", get_song_suggestions(session, now, resp),
                 "recommendations", resp)

\* tok_resp is the answer the token endpoint holds ready for this request
RefreshToken ==
    \E resp \in TokenResponses :
        /\ Serve("/refresh-token", refresh_token(session, now, resp), resp,
                 NoSearchResponse, NoResourceResponse)
        /\ Note("/refresh-token", NoArgs, "none")

Forms == [artist : BOOLEAN, genre : BOOLEAN]
NoForm == [artist |-> FALSE, genre |-> FALSE]

\* upstream answers only the calls a request makes: the answers are drawn
\* for the calls the handler reaches with the inputs drawn so far
SearchAnswers(called) ==
    IF called THEN SearchResponses ELSE {NoSearchResponse}
ResourceAnswers(called) ==
    IF called THEN ResourceResponses ELSE {NoResourceResponse}

CustomRecommendations ==
    \E method \in {"GET", "POST"} :
    \E form \in IF method = "POST" THEN Forms ELSE {NoForm} :
    \E sresp \in SearchAnswers(Made(get_custom_recommendations(session, method,
                    form, NoSearchResponse, NoResourceResponse).calls, "search")) :
    \E rresp \in ResourceAnswers(Made(get_custom_recommendations(session, method,
                    form, sresp, NoResourceResponse).calls, "recommendations")) :
        /\ Serve("/custom-recommendations",
                 get_custom_recommendations(session, method, form, sresp, rresp),
                 NoTokenResponse, sresp, rresp)
        /\ Note("/custom-recommendations", NoArgs,
                IF Made(get_custom_recommendations(session, method, form,
                            sresp, rresp).calls, "search")
                THEN get_artist_id(session, sresp).id ELSE "none")

GetRecommendations ==
    \E form \in Forms :
    \E sresp \in SearchAnswers(Made(get_recommendations(session, form,
                    NoSearchResponse, NoResourceResponse).calls, "search")) :
    \E rresp \in ResourceAnswers(Made(get_recommendations(session, form,
                    sresp, NoResourceResponse).calls, "recommendations")) :
        /\ Serve("/get-recommendations",
                 get_recommendations(session, form, sresp, rresp),
                 NoTokenResponse, sresp, rresp)
        /\ Note("/get-recommendations", NoArgs,
                IF Made(get_recommendations(session, form, sresp, rresp).calls,
                        "search")
                THEN get_artist_id(session, sresp).id ELSE "none")

Next ==
    \/ Tick
    \/ Index
    \/ Login
    \/ Home
    \/ Callback
    \/ Artists
    \/ Tracks
    \/ Playlists
    \/ Suggestions
    \/ RefreshToken
    \/ CustomRecommendations
    \/ GetRecommendations

Spec == Init /\ [][Next]_vars

\* ------------------------------------------------------------ properties
GatedRoutes == {"/artists", "/tracks", "/playlists", "/suggestions"}

HasCredential(sess) ==
    Has(sess, "access_token") /\ Has(sess, "refresh_token") /\ Has(sess, "expires_at")

\* the refresh POSTs among the calls c
RefreshPosts(c) ==
    Cardinality({ i \in 1..Len(c) :
        c[i].target = "token" /\ c[i].grant = "refresh_token" })

\* C1: every upstream GET of the last request was made with an access token
\* in the session and at a time not after its expires_at.
C1_GetOnlyWithValidToken ==
    \A i \in 1..Len(calls) :
        calls[i].method = "GET" =>
            /\ Has(pre, "access_token")
            /\ Has(pre, "expires_at")
            /\ at <= pre["expires_at"]

\* C2: when a browser request to a gated route started with a credential
\* whose expires_at is not after the clock, the finished chain of requests
\* holds exactly one refresh POST to the token endpoint.
C2_ExpiredAccessRefreshesOnce ==
    ( /\ pending = "none"
      /\ chain_route \in GatedRoutes
      /\ HasCredential(chain_pre)
      /\ chain_at >= chain_pre["expires_at"] )
    => RefreshPosts(chain_calls) = 1

\* C3: after /refresh-token served an expired credential while the token
\* endpoint answers the refresh with success, the session holds the returned
\* access token, expires_at is the refresh time plus the returned expires_in,
\* and the refresh token is the stored one when the answer has none.
C3_RefreshReplacesTokenAndExpiry ==
    ( /\ route = "/refresh-token"
      /\ HasCredential(pre)
      /\ at > pre["expires_at"]
      /\ tok_resp.status = 200
      /\ Has(tok_resp.body, "access_token")
      /\ Has(tok_resp.body, "expires_in") )
    => /\ HasCredential(session)
       /\ session["access_token"] = tok_resp.body["access_token"]
       /\ session["expires_at"] = at + tok_resp.body["expires_in"]
       /\ session["expires_at"] > at
       /\ ~Has(tok_resp.body, "refresh_token")
            => session["refresh_token"] = pre["refresh_token"]

\* C4: a request to a gated route made before expires_at calls no token
\* endpoint and leaves the session as it was.
C4_ValidCredentialUntouched ==
    ( /\ route \in GatedRoutes
      /\ HasCredential(pre)
      /\ at < pre["expires_at"] )
    => /\ session = pre
       /\ ~Made(calls, "token")

C4_Witness ==
    /\ route \in GatedRoutes
    /\ HasCredential(pre)
    /\ at < pre["expires_at"]
    /\ outcome = "render_list"

\* C5: the session holds access_token exactly when it holds expires_at.
C5_TokenIffExpiry ==
    Has(session, "access_token") <=> Has(session, "expires_at")

\* C6: a code exchange answered with a non-success status, or with a body
\* lacking access_token, refresh_token or expires_in, ends in a defined
\* response and leaves the session as it was.
C6_FailedExchangeIsCleanError ==
    ( /\ route = "/callback"
      /\ Made(calls, "token")
      /\ \/ tok_resp.status # 200
         \/ \E f \in TokenFields : ~Has(tok_resp.body, f) )
    => /\ ~Failed(outcome)
       /\ session = pre

\* C7: after /refresh-token served an expired credential while the token
\* endpoint answers the refresh with a failure, at most one refresh was
\* attempted, the session holds no credential and the browser is sent to
\* /login.
C7_FailedRefreshDropsCredential ==
    ( /\ route = "/refresh-token"
      /\ HasCredential(pre)
      /\ at > pre["expires_at"]
      /\ tok_resp.status # 200 )
    => /\ RefreshPosts(calls) <= 1
       /\ ~Has(session, "access_token")
       /\ outcome = "redirect_login"

\* C8: a gated route whose upstream resource call is answered with a status
\* other than 200 redirects to /login and renders no list.
C8_UpstreamErrorRedirectsToLogin ==
    ( /\ route \in GatedRoutes
      /\ calls # <<>>
      /\ res_resp.status # 200 )
    => outcome = "redirect_login"

\* C9: a gated route requested without an access token in the session
\* redirects to /login, makes no upstream call and leaves the session alone.
C9_NoCredentialRedirectsToLogin ==
    ( /\ route \in GatedRoutes
      /\ ~Has(pre, "access_token") )
    => /\ outcome = "redirect_login"
       /\ calls = <<>>
       /\ session = pre

C9_Witness ==
    /\ route \in GatedRoutes
    /\ ~Has(pre, "access_token")
    /\ outcome = "redirect_login"
    /\ pending = "/login"

\* C10: only /callback writes the session, and a session without a
\* credential comes to hold one only by a /callback whose code exchange
\* succeeded.
C10_OnlyCallbackCreatesCredential ==
    [][ /\ session' # session => route' = "/callback"
        /\ (~HasCredential(session) /\ HasCredential(session'))
             => /\ route' = "/callback"
                /\ outcome' = "redirect_home"
                /\ tok_resp'.status = 200
                /\ TokenFields \subseteq DOMAIN tok_resp'.body ]_vars

C10_Witness ==
    /\ route = "/callback"
    /\ ~HasCredential(pre)
    /\ HasCredential(session)
    /\ outcome = "redirect_home"

\* C11: a /callback request with an error parameter answers with the JSON
\* error body, makes no upstream call and leaves the session as it was, also
\* when a code parameter is present; a /callback request with a code and no
\* error whose exchange succeeds stores the returned credential and
\* redirects to /home.
C11_CallbackErrorOrCredential ==
    /\ (route = "/callback" /\ req.error)
         => /\ outcome = "json_error"
            /\ calls = <<>>
            /\ session = pre
    /\ ( /\ route = "/callback"
         /\ req.code
         /\ ~req.error
         /\ tok_resp.status = 200
         /\ TokenFields \subseteq DOMAIN tok_resp.body )
         => /\ outcome = "redirect_home"
            /\ pending = "/home"
            /\ HasCredential(session)
            /\ session["access_token"] = tok_resp.body["access_token"]
            /\ session["refresh_token"] = tok_resp.body["refresh_token"]

C11_Witness ==
    /\ route = "/callback"
    /\ req.error
    /\ req.code
    /\ HasCredential(pre)
    /\ outcome = "json_error"

\* C12: every outcome of POST /get-recommendations other than success is an
\* error body with a status: 404 exactly when the artist search succeeded
\* and found no artist, 400 when the search or the recommendation call was
\* answered with a status other than 200, 500 otherwise.
C12_ErrorStatusByCause ==
    route = "/get-recommendations" =>
        /\ outcome \in {"json_list", "json_400", "json_404", "json_500"}
        /\ outcome = "json_404"
             <=> (search_resp.status = 200 /\ search_resp.ok
                    /\ search_resp.items = <<>>)
        /\ (Made(calls, "search") /\ search_resp.status # 200)
             => outcome = "json_400"
        /\ (Made(calls, "recommendations") /\ res_resp.status # 200)
             => outcome = "json_400"

RecommendationRoutes == {"/custom-recommendations", "/get-recommendations"}

\* C14: when the artist search succeeds, get_artist_id returns None for an
\* empty result list and the id of the first item otherwise, whatever the
\* later items are.
C14_FirstArtistOrNone ==
    ( /\ route \in RecommendationRoutes
      /\ Made(calls, "search")
      /\ search_resp.status = 200
      /\ search_resp.ok )
    => /\ search_resp.items = <<>> => artist_id = "none"
       /\ search_resp.items # <<>> => artist_id = search_resp.items[1]

C14_Witness ==
    /\ route \in RecommendationRoutes
    /\ search_resp.status = 200
    /\ search_resp.ok
    /\ Len(search_resp.items) = 2
    /\ search_resp.items[1] # search_resp.items[2]
    /\ artist_id = search_resp.items[1]

\* a session whose stored expiry the clock has passed
CredentialExpired(sess, t) == Has(sess, "expires_at") /\ t > sess["expires_at"]

EndOutcomes ==
    {"render_login", "render_home", "render_list", "render_form",
     "json_error", "json_list", "json_400", "json_404", "json_500",
     "bad_request", "redirect_auth"}

C17_EveryPathReturns == outcome # "no_return"

====
